---- MODULE Spec2Model ----
(***************************************************************************)
(* Drag-and-drop elements (drop_base, drop_box_base,                       *)
(* drop_inserter_element, draggable_element) and the popup button          *)
(* (basic_popup_button) as state machines.  One action per handler; every  *)
(* handler records what it did in `last`, so that its contract can be      *)
(* stated as a predicate of the state it leaves behind.                    *)
(***************************************************************************)
EXTENDS Integers, Sequences, FiniteSets, TLC

\* ------------------------------------------------------------------ bounds
MaxItems == 3
MaxOverlays == 2
MaxText == 2

\* ------------------------------------------------------- program constants
click_threshold == 10
max_boxes == 20
popup_inset == 3

VARIABLES
    cfg,            \* which collaborators find_subject / find_parent resolve
    mime_types,     \* drop_base::_mime_types, per drop target
    is_tracking,    \* drop_base::_is_tracking, per drop target
    insertion_pos,  \* drop_inserter_element::_insertion_pos
    selection,      \* selected indices held by the selection coordinator
    select_end,     \* selection_list_element's latest selected index, -1 if none
    is_selected,    \* the draggable element's own selected flag
    drag_image,     \* draggable_element::_drag_image (id 0: null)
    overlays,       \* drag images held by the view's overlay list
    gesture,        \* the tracker's gesture: idle, or how the item began it
                    \* ("untracked" where a specification leaves the tracker out)
    toggle,         \* basic_popup_button: the button's state / value
    popup_open,     \* whether the popup is open
    key_map,        \* the adapter's _keys: last recorded action per key
    text_inserted,  \* the adapter's _text_inserted
    view_received,  \* per key, the last action the view's key handler was given
    popup_on_click, \* whether the close-on-item-click callback is registered
    popup_bounds,   \* the popup's current bounds
    last            \* what the last handler call did

dropVars == <<mime_types, is_tracking, insertion_pos>>
selVars == <<selection, select_end, is_selected>>
dragVars == <<drag_image, overlays, gesture>>
popupVars == <<toggle, popup_open, popup_on_click, popup_bounds>>
keyVars == <<key_map, text_inserted, view_received>>
vars == <<cfg, dropVars, selVars, dragVars, popupVars, keyVars, last>>

\* ---------------------------------------------------------------- domains
Targets == {"base", "box", "ins"}
Statuses == {"entering", "hovering", "leaving"}
Containers == {"none", "composite", "list"}
Indices == 0 .. (MaxItems - 1)
Payloads == {{}, {"text/plain"}, {"application/x-other"}, {"addr:ins"},
             {"addr:box", "application/x-other"}}
Selections == {{}, {0}, {0, MaxItems - 1}, Indices}

NoImage == [id |-> 0, boxes |-> 0, left |-> 0, top |-> 0, right |-> 0, bottom |-> 0]

Abs(x) == IF x < 0 THEN -x ELSE x
Min(a, b) == IF a < b THEN a ELSE b

\* The refreshes the drop targets requested while handling one notification.
target_refreshes(d) == d["base"].refreshes + d["box"].refreshes + d["ins"].refreshes

\* The record every handler fills in; fields it does not use keep these values.
NoCall ==
    [op |-> "none", target |-> "none", keys |-> {}, status |-> "none",
     was_tracking |-> FALSE, refreshes |-> 0, scrolls |-> 0, ret |-> FALSE,
     on_drop |-> 0, on_drop_pos |-> -1, accept |-> FALSE,
     notes |-> <<>>, trace |-> <<>>, processed |-> FALSE, mods |-> {},
     dx |-> 0, dy |-> 0, had_image |-> 0, pre_pos |-> -1, pre_sel |-> {},
     indices |-> {}, hit |-> -1, top |-> 0, bottom |-> 0, y |-> 0, n |-> 0,
     line |-> -1, down |-> FALSE, inside |-> FALSE, forwarded |-> FALSE,
     key |-> "none", action |-> "none", pos |-> [x |-> 0, y |-> 0],
     bounds |-> [left |-> 0, top |-> 0, right |-> 0], item_hit |-> FALSE,
     was_on |-> FALSE, was_open |-> FALSE, registered |-> FALSE,
     list_pos |-> -1, list_indices |-> {}, returned |-> "none",
     fwd |-> [down |-> FALSE, pos |-> [x |-> 0, y |-> 0]], boxes |-> <<>>,
     pre_ovl |-> {}, began |-> "untracked",
     published |-> [indices |-> {}, latest |-> -1], was_selected |-> FALSE,
     pre_trk |-> {}, delivered |-> "none", responder |-> "none", text |-> <<>>,
     prior |-> "none", prev_received |-> "none"]

\* ------------------------------------------------------------- drop_base
\* address_to_string: the target's address as a content-type key.
address_to_string(t) ==
    CASE t = "base" -> "addr:base"
      [] t = "box" -> "addr:box"
      [] OTHER -> "addr:ins"

\* The accepted types given to the constructor.
ctor_types(t) == {"text/plain"}

\* std::any_of over _mime_types: some registered type is a key of the payload.
any_match(types, keys) == \E item \in types : item \in keys

prepare_subject_replacing(types, t) == {address_to_string(t)}

\* drop_base::prepare_subject: registers the target's own identity key.
prepare_subject(types, t) ==
    LET id == address_to_string(t)
    IN  IF id \notin types THEN types \cup {id} ELSE types

\* drop_base::track_drop: the new _is_tracking and the refreshes requested.
drop_base_track_drop_eager(tracking, types, keys, status) ==
    IF ~any_match(types, keys)
    THEN [is_tracking |-> tracking, refreshes |-> 0, scrolls |-> 0]
    ELSE [is_tracking |-> status # "leaving", refreshes |-> 1, scrolls |-> 0]

drop_base_track_drop(tracking, types, keys, status) ==
    IF ~any_match(types, keys)
    THEN [is_tracking |-> tracking, refreshes |-> 0, scrolls |-> 0]
    ELSE LET new_is_tracking == status # "leaving"
         IN  IF new_is_tracking # tracking
             THEN [is_tracking |-> new_is_tracking, refreshes |-> 1, scrolls |-> 0]
             ELSE [is_tracking |-> tracking, refreshes |-> 0, scrolls |-> 0]

\* drop_inserter_element::track_drop: the base call, then scroll_into_view and
\* one more refresh whenever the target is tracking afterwards.
drop_inserter_track_drop(tracking, types, keys, status) ==
    LET b == drop_base_track_drop(tracking, types, keys, status)
    IN  IF b.is_tracking
        THEN [is_tracking |-> TRUE, refreshes |-> b.refreshes + 1, scrolls |-> 1]
        ELSE b

\* Virtual dispatch of track_drop on a target.
track_drop(t, tracking, types, keys, status) ==
    IF t = "ins"
    THEN drop_inserter_track_drop(tracking, types, keys, status)
    ELSE drop_base_track_drop(tracking, types, keys, status)

\* drop_base::drop, drop_box_base::drop, drop_inserter_element::drop by virtual
\* dispatch: `accept` is what the caller-supplied on_drop callback returns.
drop_base_drop ==
    [is_tracking |-> FALSE, pos |-> -1, on_drop |-> 0, on_drop_pos |-> -1,
     refreshes |-> 0, ret |-> FALSE]

drop_box_drop_tracked(accept) ==
    [is_tracking |-> ~accept, pos |-> -1, on_drop |-> 1, on_drop_pos |-> -1,
     refreshes |-> 1, ret |-> accept]

drop_box_drop(accept) ==
    [is_tracking |-> FALSE, pos |-> -1, on_drop |-> 1, on_drop_pos |-> -1,
     refreshes |-> 1, ret |-> accept]

drop_inserter_drop(pos, accept) ==
    IF pos >= 0
    THEN [is_tracking |-> FALSE, pos |-> -1, on_drop |-> 1, on_drop_pos |-> pos,
          refreshes |-> 1, ret |-> accept]
    ELSE [is_tracking |-> FALSE, pos |-> pos, on_drop |-> 0, on_drop_pos |-> -1,
          refreshes |-> 0, ret |-> FALSE]

drop(t, pos, accept) ==
    CASE t = "base" -> drop_base_drop
      [] t = "box" -> drop_box_drop(accept)
      [] OTHER -> drop_inserter_drop(pos, accept)

\* ------------------------------------------------- drop_inserter_element
\* Children are stacked from y = 0; heights[i+1] is the height of child i.
RECURSIVE child_top(_, _)
child_top(heights, i) ==
    IF i = 0 THEN 0 ELSE child_top(heights, i - 1) + heights[i]

child_bottom(heights, i) == child_top(heights, i) + heights[i + 1]

\* The empty container, and MaxItems children of alternating heights 3, 2, 3, ...
Layouts == {[i \in 1 .. n |-> 3 - ((i + 1) % 2)] : n \in {0, MaxItems}}
CursorYs(heights) ==
    IF Len(heights) = 0 THEN {0} ELSE 0 .. child_bottom(heights, Len(heights) - 1)

\* hit_element: a child whose bounds include the cursor (rect::includes is
\* inclusive on every edge) and whose hit_test answers, or -1 for none.
hit_choices(heights, y) ==
    {-1} \cup {i \in 0 .. (Len(heights) - 1) :
                  child_top(heights, i) <= y /\ y <= child_bottom(heights, i)}

\* cursor_pos.y < bounds.top + bounds.height()/2, in halves to stay exact.
before_midpoint_truncating(y, top, bottom) == y < top + ((bottom - top) \div 2)

before_midpoint(y, top, bottom) == 2 * y < 2 * top + (bottom - top)

inserter_draw_resetting(tracking, container, n, hit, top, bottom, y, pos) ==
    IF tracking /\ container # "none"
    THEN IF n > 0
         THEN IF hit >= 0
              THEN LET before == before_midpoint(y, top, bottom)
                   IN  [pos |-> IF before THEN hit ELSE hit + 1,
                        line |-> IF before THEN top ELSE bottom]
              ELSE [pos |-> -1, line |-> -1]
         ELSE [pos |-> 0, line |-> 0]
    ELSE [pos |-> pos, line |-> -1]

\* drop_inserter_element::draw: the new _insertion_pos and the y of the
\* indicator line (-1: none drawn).
inserter_draw(tracking, container, n, hit, top, bottom, y, pos) ==
    IF tracking /\ container # "none"
    THEN IF n > 0
         THEN IF hit >= 0
              THEN LET before == before_midpoint(y, top, bottom)
                   IN  [pos |-> IF before THEN hit ELSE hit + 1,
                        line |-> IF before THEN top ELSE bottom]
              ELSE [pos |-> pos, line |-> -1]
         ELSE [pos |-> 0, line |-> 0]
    ELSE [pos |-> pos, line |-> -1]

\* selection_list_element::update_selection(lo, hi): the selection becomes the
\* contiguous range lo .. hi, and hi is the latest selected index.
update_selection(lo, hi) ==
    [selection |-> lo .. hi, select_end |-> IF hi >= lo THEN hi ELSE -1]

\* selection_list_element::select_none: nothing stays selected.
select_none == [selection |-> {}, select_end |-> -1]

\* drop_inserter_element::move at insertion position pos: what is asked of the
\* list (list::move), of the on_move callback and of the selection coordinator.
inserter_move_short(pos, indices, c, sel, sel_end) ==
    IF pos >= 0
    THEN LET n == Cardinality(indices)
             u == IF c.hasSel THEN update_selection(pos, pos + n)
                  ELSE [selection |-> sel, select_end |-> sel_end]
         IN  [list_move |-> c.container = "list",
              list_pos |-> IF c.container = "list" THEN pos ELSE -1, on_move |-> 1,
              updated |-> c.hasSel, selection |-> u.selection,
              select_end |-> u.select_end]
    ELSE [list_move |-> FALSE, list_pos |-> -1, on_move |-> 0, updated |-> FALSE,
          selection |-> sel, select_end |-> sel_end]

inserter_move_unguarded(pos, indices, c, sel, sel_end) ==
    LET n == Cardinality(indices)
        u == IF c.hasSel THEN update_selection(pos, pos + n - 1)
             ELSE [selection |-> sel, select_end |-> sel_end]
    IN  [list_move |-> c.container = "list",
         list_pos |-> IF c.container = "list" THEN pos ELSE -1, on_move |-> 1,
         updated |-> c.hasSel, selection |-> u.selection,
         select_end |-> u.select_end]

inserter_move(pos, indices, c, sel, sel_end) ==
    IF pos >= 0
    THEN LET n == Cardinality(indices)
             u == IF c.hasSel THEN update_selection(pos, pos + n - 1)
                  ELSE [selection |-> sel, select_end |-> sel_end]
         IN  [list_move |-> c.container = "list",
              list_pos |-> IF c.container = "list" THEN pos ELSE -1, on_move |-> 1,
              updated |-> c.hasSel, selection |-> u.selection,
              select_end |-> u.select_end]
    ELSE [list_move |-> FALSE, list_pos |-> -1, on_move |-> 0, updated |-> FALSE,
          selection |-> sel, select_end |-> sel_end]

\* drop_inserter_element::erase: only a list subject is erased from, and only
\* then is the selection cleared.
inserter_erase(indices, c, sel, sel_end) ==
    IF c.container = "list"
    THEN LET u == IF c.hasSel THEN select_none
                  ELSE [selection |-> sel, select_end |-> sel_end]
         IN  [list_erase |-> TRUE, on_erase |-> 1, cleared |-> c.hasSel,
              selection |-> u.selection, select_end |-> u.select_end]
    ELSE [list_erase |-> FALSE, on_erase |-> 0, cleared |-> FALSE,
          selection |-> sel, select_end |-> sel_end]

\* The draggable item's selected flag after the coordinator rewrote the
\* selection: clear when nothing is selected, either value otherwise.
selected_flags(sel, changed, old) ==
    IF ~changed THEN {old} ELSE IF sel = {} THEN {FALSE} ELSE BOOLEAN

\* ------------------------------------------------------ platform adapter
AdapterKeys == {"key_a", "left_shift"}

\* What a key has in the key map before its first event: std::map's
\* operator[] value-initializes a key_action.
key_action_default == "release"

\* The characters interpretKeyEvents may hand to insertText: a function-key
\* codepoint (0xf7xx), a control codepoint, and a printable one that the
\* view's text handler takes or refuses.
TextChars == {"function", "control", "taken", "refused"}
RECURSIVE TextsOfLen(_)
TextsOfLen(n) ==
    IF n = 0 THEN {<<>>}
    ELSE {Append(t, c) : t \in TextsOfLen(n - 1), c \in TextChars}
Texts == UNION {TextsOfLen(n) : n \in 0 .. MaxText}

handle_key_records_delivered(map, key, action, view_handled) ==
    IF action = "release" /\ map[key] = "release"
    THEN [keys |-> map, delivered |-> "none", ret |-> FALSE]
    ELSE LET d == IF action = "press" /\ map[key] = "press" THEN "repeat" ELSE action
         IN  [keys |-> [map EXCEPT ![key] = d], delivered |-> d, ret |-> view_handled]

handle_key_forwarding(map, key, action, view_handled) ==
    [keys |-> [map EXCEPT ![key] = action],
     delivered |-> IF action = "press" /\ map[key] = "press"
                   THEN "repeat" ELSE action,
     ret |-> view_handled]

\* handle_key: the new key map, the action handed to the view's key handler
\* ("none" when the event is dropped) and the answer; view_handled is what
\* the view's key handler answers.
handle_key(map, key, action, view_handled) ==
    IF action = "release" /\ map[key] = "release"
    THEN [keys |-> map, delivered |-> "none", ret |-> FALSE]
    ELSE [keys |-> [map EXCEPT ![key] = action],
          delivered |-> IF action = "press" /\ map[key] = "press"
                        THEN "repeat" ELSE action,
          ret |-> view_handled]

\* The view's key handler, as the adapter sees it: it is called with the
\* delivered action unless the event was dropped.
view_key(received, key, delivered) ==
    IF delivered = "none" THEN received
    ELSE [received EXCEPT ![key] = delivered]

\* handle_text: control codepoints are refused, the others go to the view.
handle_text(c) == c = "taken"

\* insertText: every character that is not a function-key codepoint
\* overwrites _text_inserted with handle_text's answer.
RECURSIVE insert_text(_, _)
insert_text(text, inserted) ==
    IF text = <<>> THEN inserted
    ELSE insert_text(Tail(text),
                     IF Head(text) = "function" THEN inserted
                     ELSE handle_text(Head(text)))

\* ----------------------------------------------------------------- Init
Configs == [hasDI : BOOLEAN, hasSel : BOOLEAN, container : Containers]

InitAt(configs, g) ==
    /\ cfg \in configs
    /\ mime_types = [t \in Targets |-> ctor_types(t)]
    /\ is_tracking = [t \in Targets |-> FALSE]
    /\ insertion_pos = -1
    /\ selection = {}
    /\ select_end = -1
    /\ is_selected = FALSE
    /\ drag_image = NoImage
    /\ overlays = {}
    /\ gesture = g
    /\ key_map = [k \in AdapterKeys |-> key_action_default]
    /\ text_inserted = FALSE
    /\ view_received = [k \in AdapterKeys |-> "none"]
    /\ toggle = FALSE
    /\ popup_open = FALSE
    /\ popup_on_click = FALSE
    /\ popup_bounds = [left |-> 0, top |-> 0, right |-> 0]
    /\ last = NoCall

InitWith(configs) == InitAt(configs, "untracked")

\* ------------------------------------------------ drop target operations
\* drop_base::prepare_subject
PrepareSubject(t) ==
    /\ mime_types' = [mime_types EXCEPT ![t] = prepare_subject(mime_types[t], t)]
    /\ last' = [NoCall EXCEPT !.op = "prepare_subject", !.target = t,
                              !.n = Cardinality(mime_types[t])]
    /\ UNCHANGED <<cfg, keyVars, is_tracking, insertion_pos, selVars, dragVars, popupVars>>

\* track_drop on target t, as the view dispatches it.
TrackDrop(t, keys, status) ==
    LET r == track_drop(t, is_tracking[t], mime_types[t], keys, status)
    IN  /\ is_tracking' = [is_tracking EXCEPT ![t] = r.is_tracking]
        /\ last' = [NoCall EXCEPT !.op = "track_drop", !.target = t, !.keys = keys,
                                  !.status = status, !.was_tracking = is_tracking[t],
                                  !.refreshes = r.refreshes, !.scrolls = r.scrolls]
        /\ UNCHANGED <<cfg, keyVars, mime_types, insertion_pos, selVars, dragVars, popupVars>>

\* drop on target t; accept is the on_drop callback's answer.
Drop(t, keys, accept) ==
    LET r == drop(t, insertion_pos, accept)
    IN  /\ is_tracking' = [is_tracking EXCEPT ![t] = r.is_tracking]
        /\ insertion_pos' = IF t = "ins" THEN r.pos ELSE insertion_pos
        /\ last' = [NoCall EXCEPT !.op = "drop", !.target = t, !.keys = keys,
                                  !.was_tracking = is_tracking[t],
                                  !.accept = accept, !.on_drop = r.on_drop,
                                  !.on_drop_pos = r.on_drop_pos,
                                  !.pre_pos = insertion_pos,
                                  !.refreshes = r.refreshes, !.ret = r.ret]
        /\ UNCHANGED <<cfg, keyVars, mime_types, selVars, dragVars, popupVars>>

\* drop_inserter_element::draw over a container laid out as `heights`, the
\* cursor at height y, hit_element answering child `hit` (-1: none).
Draw(heights, y, hit) ==
    LET n == Len(heights)
        top == IF hit >= 0 THEN child_top(heights, hit) ELSE 0
        bottom == IF hit >= 0 THEN child_bottom(heights, hit) ELSE 0
        r == inserter_draw(is_tracking["ins"], cfg.container, n, hit, top, bottom,
                           y, insertion_pos)
    IN  /\ hit \in hit_choices(heights, y)
        /\ cfg.container = "none" => heights = <<>>
        /\ insertion_pos' = r.pos
        /\ last' = [NoCall EXCEPT !.op = "draw", !.target = "ins",
                                  !.was_tracking = is_tracking["ins"],
                                  !.pre_pos = insertion_pos, !.hit = hit, !.top = top,
                                  !.bottom = bottom, !.y = y, !.n = n, !.line = r.line]
        /\ UNCHANGED <<cfg, keyVars, mime_types, is_tracking, selVars, dragVars, popupVars>>

\* drop_inserter_element::move
Move(indices) ==
    LET r == inserter_move(insertion_pos, indices, cfg, selection, select_end)
    IN  /\ selection' = r.selection
        /\ select_end' = r.select_end
        /\ is_selected' \in selected_flags(r.selection, r.updated, is_selected)
        /\ last' = [NoCall EXCEPT !.op = "move", !.target = "ins",
                                  !.indices = indices, !.pre_pos = insertion_pos,
                                  !.pre_sel = selection,
                                  !.list_pos = r.list_pos,
                                  !.list_indices = IF r.list_move THEN indices ELSE {},
                                  !.trace = (IF r.list_move THEN <<"list.move">> ELSE <<>>)
                                            \o (IF r.on_move = 1 THEN <<"on_move">> ELSE <<>>)
                                            \o (IF r.updated THEN <<"update_selection">> ELSE <<>>)]
        /\ UNCHANGED <<cfg, keyVars, dropVars, dragVars, popupVars>>

\* drop_inserter_element::erase
Erase(indices) ==
    LET r == inserter_erase(indices, cfg, selection, select_end)
    IN  /\ selection' = r.selection
        /\ select_end' = r.select_end
        /\ is_selected' \in selected_flags(r.selection, r.cleared, is_selected)
        /\ last' = [NoCall EXCEPT !.op = "erase", !.target = "ins",
                                  !.indices = indices, !.pre_pos = insertion_pos,
                                  !.pre_sel = selection,
                                  !.trace = (IF r.list_erase THEN <<"list.erase">> ELSE <<>>)
                                            \o (IF r.on_erase = 1 THEN <<"on_erase">> ELSE <<>>)
                                            \o (IF r.cleared THEN <<"select_none">> ELSE <<>>)]
        /\ UNCHANGED <<cfg, keyVars, dropVars, dragVars, popupVars>>

\* drop_inserter_element::click and ::key: the base class handles the event
\* (answering `handled`, and leaving the coordinator with selection new_sel and
\* latest index new_end); a handled pointer-up, or a handled key, publishes the
\* selection through on_select when the latest index is not negative.
inserter_publish_handled(handled, down, c, new_end) ==
    IF handled THEN 1 ELSE 0

inserter_publish(handled, down, c, new_end) ==
    IF ~handled \/ down THEN 0
    ELSE IF c.hasSel /\ new_end >= 0 THEN 1 ELSE 0

SelectionChange(op, handled, down, new_sel, new_flag) ==
    LET new_end == IF new_sel = {} THEN -1
                   ELSE CHOOSE i \in new_sel : \A j \in new_sel : j <= i
    IN  /\ IF handled /\ cfg.hasSel
           THEN /\ selection' = new_sel
                /\ select_end' = new_end
                /\ is_selected' = new_flag
                /\ new_flag => new_sel # {}
           ELSE /\ UNCHANGED <<selection, select_end>>
                /\ is_selected' = IF handled THEN new_flag ELSE is_selected
        /\ last' = [NoCall EXCEPT !.op = op, !.target = "ins", !.ret = handled,
                                  !.down = down,
                                  !.trace = IF inserter_publish(handled, down, cfg,
                                                                select_end') = 1
                                            THEN <<"on_select">> ELSE <<>>,
                                  !.published =
                                      IF inserter_publish(handled, down, cfg,
                                                          select_end') = 1
                                      THEN [indices |-> selection',
                                            latest |-> select_end']
                                      ELSE NoCall.published]
        /\ UNCHANGED <<cfg, keyVars, dropVars, dragVars, popupVars>>

InserterClick(handled, down, new_sel, new_flag) ==
    SelectionChange("click", handled, down, new_sel, new_flag)

InserterKey(handled, new_sel, new_flag) ==
    SelectionChange("key", handled, FALSE, new_sel, new_flag)

\* ------------------------------------------------------ draggable_element
Modifiers == {{}, {"mod_shift"}, {"mod_action", "mod_control"}, {"mod_control"}}
Dists ==
    {[x |-> 0, y |-> 0], [x |-> click_threshold, y |-> -click_threshold],
     [x |-> click_threshold + 1, y |-> 0], [x |-> -(click_threshold + 1), y |-> 0],
     [x |-> 0, y |-> click_threshold + 1], [x |-> 0, y |-> -(click_threshold + 1)]}
Points == {[x |-> 5, y |-> 7]}
GesturePoints == Points \cup {[x |-> 9, y |-> 2]}
KeyActions == {"press", "repeat", "release"}
KeyCodes == {"escape", "backspace", "_delete", "other"}
Under == {{}, Targets}
item_offset == 10
ElementBounds == [left |-> 0, top |-> 0, right |-> 40, bottom |-> 12]

extends_selection_shift_only(mods) == "mod_shift" \in mods

\* track_info.modifiers & (mod_shift | mod_action)
extends_selection(mods) == mods \cap {"mod_shift", "mod_action"} # {}

\* std::abs(distance().x) > 10 || std::abs(distance().y) > 10
maybe_dragged_strict(dx, dy) == Abs(dx) >= click_threshold \/ Abs(dy) >= click_threshold

maybe_dragged(dx, dy) == Abs(dx) > click_threshold \/ Abs(dy) > click_threshold

\* view::track_drop: the view hands the notification to the targets under the
\* cursor; each runs its own track_drop.
view_track_drop(trk, types, under, keys, status) ==
    [t \in Targets |->
        IF t \in under
        THEN track_drop(t, trk[t], types[t], keys, status)
        ELSE [is_tracking |-> trk[t], refreshes |-> 0, scrolls |-> 0]]

\* The shared pointer a new drag image gets: one the view does not hold yet.
fresh_image(ovl) == CHOOSE i \in (1 .. MaxOverlays) \ ovl : \A j \in (1 .. MaxOverlays) \ ovl : i <= j

begin_tracking_uncapped(mods, c, selected, sel, image, ovl) ==
    IF extends_selection(mods) \/ ~c.hasSel \/ ~selected
    THEN [image |-> image, overlays |-> ovl, notify |-> FALSE, processed |-> FALSE,
          refreshes |-> 0]
    ELSE LET num_boxes == Cardinality(sel)
             id == fresh_image(ovl)
         IN  [image |-> [id |-> id, boxes |-> num_boxes,
                         left |-> ElementBounds.left, top |-> ElementBounds.top,
                         right |-> ElementBounds.right + item_offset * num_boxes,
                         bottom |-> ElementBounds.bottom + item_offset * num_boxes],
              overlays |-> ovl \cup {id}, notify |-> c.hasDI, processed |-> TRUE,
              refreshes |-> 1]

\* draggable_element::begin_tracking
begin_tracking(mods, c, selected, sel, image, ovl) ==
    IF extends_selection(mods) \/ ~c.hasSel \/ ~selected
    THEN [image |-> image, overlays |-> ovl, notify |-> FALSE, processed |-> FALSE,
          refreshes |-> 0]
    ELSE LET num_boxes == Min(Cardinality(sel), max_boxes)
             id == fresh_image(ovl)
         IN  [image |-> [id |-> id, boxes |-> num_boxes,
                         left |-> ElementBounds.left, top |-> ElementBounds.top,
                         right |-> ElementBounds.right + item_offset * num_boxes,
                         bottom |-> ElementBounds.bottom + item_offset * num_boxes],
              overlays |-> ovl \cup {id}, notify |-> c.hasDI, processed |-> TRUE,
              refreshes |-> 1]

\* drag_image_element::draw: the rounded boxes painted, first to last, inside
\* the overlay's bounds b; `fade` counts the factors of 0.6 in a box's opacity.
drag_image_draw(b, num_boxes) ==
    LET left == b.left - 8
        top == b.top - 2
        right == (b.right + 8) - item_offset * num_boxes
        bottom == (b.bottom + 2) - item_offset * num_boxes
    IN  [i \in 1 .. num_boxes |->
            [left |-> left + 10 * (i - 1), top |-> top + 10 * (i - 1),
             right |-> right + 10 * (i - 1), bottom |-> bottom + 10 * (i - 1),
             fade |-> i]]

\* rect::move_to: the same size at a new origin.
move_to(image, p) ==
    [image EXCEPT !.left = p.x, !.top = p.y,
                  !.right = p.x + (image.right - image.left),
                  !.bottom = p.y + (image.bottom - image.top)]

keep_tracking_debounced(mods, cur, c, image) ==
    IF extends_selection(mods) \/ image.id = 0
    THEN [image |-> image, notify |-> FALSE, processed |-> FALSE, refreshes |-> 0]
    ELSE IF image.left = cur.x /\ image.top = cur.y
    THEN [image |-> image, notify |-> FALSE, processed |-> FALSE, refreshes |-> 0]
    ELSE [image |-> move_to(image, cur), notify |-> c.hasDI, processed |-> c.hasDI,
          refreshes |-> 1]

\* draggable_element::keep_tracking
keep_tracking(mods, cur, c, image) ==
    IF extends_selection(mods) \/ image.id = 0
    THEN [image |-> image, notify |-> FALSE, processed |-> FALSE, refreshes |-> 0]
    ELSE [image |-> move_to(image, cur), notify |-> c.hasDI, processed |-> c.hasDI,
          refreshes |-> 1]

end_tracking_unchecked(mods, dx, dy, c, sel, image, ovl) ==
    IF extends_selection(mods)
    THEN [image |-> image, overlays |-> ovl, notify |-> FALSE, move |-> FALSE,
          processed |-> FALSE, refreshes |-> 0]
    ELSE LET moved == maybe_dragged(dx, dy) /\ c.hasDI /\ c.hasSel /\ sel # {}
         IN  [image |-> NoImage, overlays |-> ovl \ {image.id}, notify |-> c.hasDI,
              move |-> moved, processed |-> moved, refreshes |-> 1]

end_tracking_claims_clicks(mods, dx, dy, c, sel, image, ovl) ==
    IF extends_selection(mods) \/ image.id = 0
    THEN [image |-> image, overlays |-> ovl, notify |-> FALSE, move |-> FALSE,
          processed |-> FALSE, refreshes |-> 0]
    ELSE LET moved == maybe_dragged(dx, dy) /\ c.hasDI /\ c.hasSel /\ sel # {}
         IN  [image |-> NoImage, overlays |-> ovl \ {image.id}, notify |-> c.hasDI,
              move |-> moved, processed |-> TRUE, refreshes |-> 1]

\* draggable_element::end_tracking
end_tracking(mods, dx, dy, c, sel, image, ovl) ==
    IF extends_selection(mods) \/ image.id = 0
    THEN [image |-> image, overlays |-> ovl, notify |-> FALSE, move |-> FALSE,
          processed |-> FALSE, refreshes |-> 0]
    ELSE LET moved == maybe_dragged(dx, dy) /\ c.hasDI /\ c.hasSel /\ sel # {}
         IN  [image |-> NoImage, overlays |-> ovl \ {image.id}, notify |-> c.hasDI,
              move |-> moved, processed |-> moved, refreshes |-> 1]

\* draggable_element::key
draggable_key_silent(action, key, c, sel, image, ovl) ==
    IF action \in {"press", "repeat"} /\ key = "escape"
    THEN [image |-> NoImage, overlays |-> ovl \ {image.id}, notify |-> FALSE,
          erase |-> FALSE, ret |-> FALSE, escaped |-> TRUE]
    ELSE IF action \in {"press", "repeat"} /\ key \in {"backspace", "_delete"}
              /\ c.hasDI /\ c.hasSel /\ sel # {}
    THEN [image |-> image, overlays |-> ovl, notify |-> FALSE,
          erase |-> TRUE, ret |-> TRUE, escaped |-> FALSE]
    ELSE [image |-> image, overlays |-> ovl, notify |-> FALSE,
          erase |-> FALSE, ret |-> FALSE, escaped |-> FALSE]

draggable_key(action, key, c, sel, image, ovl) ==
    IF action \in {"press", "repeat"} /\ key = "escape"
    THEN [image |-> NoImage, overlays |-> ovl \ {image.id}, notify |-> c.hasDI,
          erase |-> FALSE, ret |-> FALSE, escaped |-> TRUE]
    ELSE IF action \in {"press", "repeat"} /\ key \in {"backspace", "_delete"}
              /\ c.hasDI /\ c.hasSel /\ sel # {}
    THEN [image |-> image, overlays |-> ovl, notify |-> FALSE,
          erase |-> TRUE, ret |-> TRUE, escaped |-> FALSE]
    ELSE [image |-> image, overlays |-> ovl, notify |-> FALSE,
          erase |-> FALSE, ret |-> FALSE, escaped |-> FALSE]

\* The payload every draggable notification carries: the identity key of the
\* insertion-aware ancestor, with empty content.
di_payload == {address_to_string("ins")}

\* The tracker's gesture after a pointer-down on the item: begun on an
\* unselected item when no gesture was open, an ordinary gesture otherwise.
gesture_begin(g, selected) ==
    IF g = "untracked" THEN g
    ELSE IF g = "idle" /\ ~selected THEN "unselected" ELSE "tracking"

\* The tracker's gesture after a pointer-up, or after escape_tracking.
gesture_end(g) == IF g = "untracked" THEN g ELSE "idle"

Notes(notify, status) ==
    IF notify THEN <<[keys |-> di_payload, status |-> status]>> ELSE <<>>

BeginTracking(mods, under) ==
    LET r == begin_tracking(mods, cfg, is_selected, selection, drag_image, overlays)
        d == view_track_drop(is_tracking, mime_types,
                             IF r.notify THEN under ELSE {}, di_payload, "entering")
    IN  /\ (~extends_selection(mods) /\ cfg.hasSel /\ is_selected)
              => (1 .. MaxOverlays) \ overlays # {}
        /\ drag_image' = r.image
        /\ overlays' = r.overlays
        /\ is_tracking' = [t \in Targets |-> d[t].is_tracking]
        /\ last' = [NoCall EXCEPT !.op = "begin_tracking", !.mods = mods,
                                  !.had_image = drag_image.id,
                                  !.pre_ovl = overlays,
                                  !.began = gesture_begin(gesture, is_selected),
                                  !.processed = r.processed,
                                  !.notes = Notes(r.notify, "entering"),
                                  !.pre_sel = selection,
                                  !.refreshes = r.refreshes
                                      + target_refreshes(d)]
        /\ gesture' = gesture_begin(gesture, is_selected)
        /\ UNCHANGED <<cfg, keyVars, mime_types, insertion_pos, selVars, popupVars>>

KeepTracking(mods, cur, under) ==
    LET r == keep_tracking(mods, cur, cfg, drag_image)
        d == view_track_drop(is_tracking, mime_types,
                             IF r.notify THEN under ELSE {}, di_payload, "hovering")
    IN  /\ drag_image' = r.image
        /\ is_tracking' = [t \in Targets |-> d[t].is_tracking]
        /\ last' = [NoCall EXCEPT !.op = "keep_tracking", !.mods = mods,
                                  !.began = gesture,
                                  !.had_image = drag_image.id,
                                  !.processed = r.processed,
                                  !.notes = Notes(r.notify, "hovering"),
                                  !.pos = cur,
                                  !.refreshes = r.refreshes
                                      + target_refreshes(d)]
        /\ UNCHANGED <<cfg, keyVars, mime_types, insertion_pos, selVars, overlays, gesture,
                       popupVars>>

EndTracking(mods, dx, dy, under) ==
    LET r == end_tracking(mods, dx, dy, cfg, selection, drag_image, overlays)
        d == view_track_drop(is_tracking, mime_types,
                             IF r.notify THEN under ELSE {}, di_payload, "leaving")
        m == IF r.move
             THEN inserter_move(insertion_pos, selection, cfg, selection, select_end)
             ELSE [list_move |-> FALSE, list_pos |-> -1, on_move |-> 0,
                   updated |-> FALSE, selection |-> selection,
                   select_end |-> select_end]
    IN  /\ drag_image' = r.image
        /\ overlays' = r.overlays
        /\ is_tracking' = [t \in Targets |-> d[t].is_tracking]
        /\ selection' = m.selection
        /\ select_end' = m.select_end
        /\ is_selected' \in selected_flags(m.selection, m.updated, is_selected)
        /\ gesture' = gesture_end(gesture)
        /\ last' = [NoCall EXCEPT !.op = "end_tracking", !.mods = mods,
                                  !.began = gesture,
                                  !.pre_ovl = overlays,
                                  !.dx = dx, !.dy = dy,
                                  !.had_image = drag_image.id,
                                  !.processed = r.processed,
                                  !.notes = Notes(r.notify, "leaving"),
                                  !.pre_sel = selection, !.pre_pos = insertion_pos,
                                  !.indices = IF r.move THEN selection ELSE {},
                                  !.list_pos = m.list_pos,
                                  !.list_indices = IF m.list_move THEN selection ELSE {},
                                  !.trace = (IF drag_image.id # r.image.id
                                             THEN <<"view.remove">> ELSE <<>>)
                                            \o (IF r.notify THEN <<"track_drop">> ELSE <<>>)
                                            \o (IF r.move THEN <<"di.move">> ELSE <<>>)
                                            \o (IF m.list_move THEN <<"list.move">> ELSE <<>>)
                                            \o (IF m.on_move = 1 THEN <<"on_move">> ELSE <<>>)
                                            \o (IF m.updated THEN <<"update_selection">> ELSE <<>>),
                                  !.refreshes = r.refreshes
                                      + target_refreshes(d)]
        /\ UNCHANGED <<cfg, keyVars, mime_types, insertion_pos, popupVars>>

Key(action, key, under) ==
    LET r == draggable_key(action, key, cfg, selection, drag_image, overlays)
        d == view_track_drop(is_tracking, mime_types,
                             IF r.notify THEN under ELSE {}, di_payload, "leaving")
        e == IF r.erase
             THEN inserter_erase(selection, cfg, selection, select_end)
             ELSE [list_erase |-> FALSE, on_erase |-> 0, cleared |-> FALSE,
                   selection |-> selection, select_end |-> select_end]
    IN  /\ drag_image' = r.image
        /\ overlays' = r.overlays
        /\ is_tracking' = [t \in Targets |-> d[t].is_tracking]
        /\ selection' = e.selection
        /\ select_end' = e.select_end
        /\ is_selected' \in selected_flags(e.selection, e.cleared, is_selected)
        /\ gesture' = IF r.escaped THEN gesture_end(gesture) ELSE gesture
        /\ last' = [NoCall EXCEPT !.op = "draggable_key", !.action = action,
                                  !.key = key, !.ret = r.ret,
                                  !.had_image = drag_image.id,
                                  !.was_selected = is_selected,
                                  !.pre_ovl = overlays,
                                  !.pre_trk = {t \in Targets : is_tracking[t]},
                                  !.notes = Notes(r.notify, "leaving"),
                                  !.pre_sel = selection,
                                  !.indices = IF r.erase THEN selection ELSE {},
                                  !.trace = (IF r.erase THEN <<"di.erase">> ELSE <<>>)
                                            \o (IF e.list_erase THEN <<"list.erase">> ELSE <<>>)
                                            \o (IF e.on_erase = 1 THEN <<"on_erase">> ELSE <<>>)
                                            \o (IF e.cleared THEN <<"select_none">> ELSE <<>>),
                                  !.refreshes =
                                      target_refreshes(d)]
        /\ UNCHANGED <<cfg, keyVars, mime_types, insertion_pos, popupVars>>

\* The view draws the overlay it holds for the element's drag image.
DrawImage ==
    /\ drag_image.id \in overlays
    /\ last' = [NoCall EXCEPT !.op = "drag_image_draw",
                              !.had_image = drag_image.id,
                              !.boxes = drag_image_draw(drag_image, drag_image.boxes)]
    /\ UNCHANGED <<cfg, keyVars, dropVars, selVars, dragVars, popupVars>>

\* ----------------------------------------------------- basic_popup_button
ButtonBounds == {[left |-> 0, bottom |-> 10], [left |-> 4, bottom |-> 20]}
PopupWidths == {30, 50}
PopupKeys == {"escape", "enter"}

\* basic_button::state(new_state): sets the state, answers whether it changed.
button_state(cur, new) == [value |-> new, changed |-> cur # new]

\* basic_popup_button::layout: the popup goes below-left of the button, as wide
\* as its minimum width (its bottom is full_extent).
popup_layout(b, min_x) ==
    [left |-> b.left + popup_inset, top |-> b.bottom,
     right |-> b.left + popup_inset + min_x]

\* basic_popup_button::click.  `inside` is what hit_test answers for btn.pos,
\* `item_hit` whether the forwarded click lands on a menu item, whose click
\* runs the callback registered at open.
popup_click_no_refresh(down, inside, item_hit, tgl, open, cb) ==
    IF down
    THEN LET s == button_state(tgl, TRUE)
         IN  [toggle |-> s.value,
              open |-> IF s.changed THEN TRUE ELSE open,
              cb |-> IF s.changed THEN TRUE ELSE cb,
              registered |-> s.changed,
              forwarded |-> FALSE,
              refreshes |-> 0]
    ELSE LET fwd == ~tgl \/ ~inside
             fire == fwd /\ item_hit /\ cb
         IN  [toggle |-> IF fire THEN FALSE ELSE tgl,
              open |-> IF fire THEN FALSE ELSE open,
              cb |-> cb, registered |-> FALSE, forwarded |-> fwd,
              refreshes |-> IF fire THEN 1 ELSE 0]

popup_click_reopens(down, inside, item_hit, tgl, open, cb) ==
    IF down
    THEN [toggle |-> TRUE, open |-> TRUE, cb |-> TRUE, registered |-> TRUE,
          forwarded |-> FALSE, refreshes |-> 1]
    ELSE LET fwd == ~tgl \/ ~inside
             fire == fwd /\ item_hit /\ cb
         IN  [toggle |-> IF fire THEN FALSE ELSE tgl,
              open |-> IF fire THEN FALSE ELSE open,
              cb |-> cb, registered |-> FALSE, forwarded |-> fwd,
              refreshes |-> IF fire THEN 1 ELSE 0]

popup_click_keeps_toggle(down, inside, item_hit, tgl, open, cb) ==
    IF down
    THEN LET s == button_state(tgl, TRUE)
         IN  [toggle |-> s.value,
              open |-> IF s.changed THEN TRUE ELSE open,
              cb |-> IF s.changed THEN TRUE ELSE cb,
              registered |-> s.changed,
              forwarded |-> FALSE,
              refreshes |-> IF s.changed THEN 1 ELSE 0]
    ELSE LET fwd == ~tgl \/ ~inside
             fire == fwd /\ item_hit /\ cb
         IN  [toggle |-> tgl,
              open |-> IF fire THEN FALSE ELSE open,
              cb |-> cb, registered |-> FALSE, forwarded |-> fwd,
              refreshes |-> IF fire THEN 1 ELSE 0]

popup_click_outside_only(down, inside, item_hit, tgl, open, cb) ==
    IF down
    THEN LET s == button_state(tgl, TRUE)
         IN  [toggle |-> s.value,
              open |-> IF s.changed THEN TRUE ELSE open,
              cb |-> IF s.changed THEN TRUE ELSE cb,
              registered |-> s.changed,
              forwarded |-> FALSE,
              refreshes |-> IF s.changed THEN 1 ELSE 0]
    ELSE LET fwd == ~inside
             fire == fwd /\ item_hit /\ cb
         IN  [toggle |-> IF fire THEN FALSE ELSE tgl,
              open |-> IF fire THEN FALSE ELSE open,
              cb |-> cb, registered |-> FALSE, forwarded |-> fwd,
              refreshes |-> IF fire THEN 1 ELSE 0]

popup_click(down, inside, item_hit, tgl, open, cb) ==
    IF down
    THEN LET s == button_state(tgl, TRUE)
         IN  [toggle |-> s.value,
              open |-> IF s.changed THEN TRUE ELSE open,
              cb |-> IF s.changed THEN TRUE ELSE cb,
              registered |-> s.changed,
              forwarded |-> FALSE,
              refreshes |-> IF s.changed THEN 1 ELSE 0]
    ELSE LET fwd == ~tgl \/ ~inside
             fire == fwd /\ item_hit /\ cb
         IN  [toggle |-> IF fire THEN FALSE ELSE tgl,
              open |-> IF fire THEN FALSE ELSE open,
              cb |-> cb, registered |-> FALSE, forwarded |-> fwd,
              refreshes |-> IF fire THEN 1 ELSE 0]

popup_key_when_open(key, tgl, open) ==
    IF key = "escape" /\ open
    THEN [toggle |-> button_state(tgl, FALSE).value, open |-> FALSE,
          refreshes |-> 1, ret |-> TRUE]
    ELSE [toggle |-> tgl, open |-> open, refreshes |-> 0, ret |-> FALSE]

\* basic_popup_button::key
popup_key(key, tgl, open) ==
    IF key = "escape"
    THEN [toggle |-> button_state(tgl, FALSE).value, open |-> FALSE,
          refreshes |-> 1, ret |-> TRUE]
    ELSE [toggle |-> tgl, open |-> open, refreshes |-> 0, ret |-> FALSE]

PopupLayout(b, min_x) ==
    /\ popup_bounds' = popup_layout(b, min_x)
    /\ last' = [NoCall EXCEPT !.op = "popup_layout"]
    /\ UNCHANGED <<cfg, keyVars, dropVars, selVars, dragVars, toggle, popup_open, popup_on_click>>

PopupClick(down, inside, item_hit, pos) ==
    LET r == popup_click(down, inside, item_hit, toggle, popup_open, popup_on_click)
    IN  /\ toggle' = r.toggle
        /\ popup_open' = r.open
        /\ popup_on_click' = r.cb
        /\ last' = [NoCall EXCEPT !.op = "popup_click", !.down = down,
                                  !.inside = inside, !.pos = pos,
                                  !.item_hit = item_hit,
                                  !.was_on = toggle, !.was_open = popup_open,
                                  !.registered = r.registered,
                                  !.forwarded = r.forwarded,
                                  !.bounds = IF r.forwarded THEN popup_bounds
                                             ELSE NoCall.bounds,
                                  !.fwd = IF r.forwarded
                                          THEN [down |-> TRUE, pos |-> pos]
                                          ELSE NoCall.fwd,
                                  !.refreshes = r.refreshes, !.returned = "this"]
        /\ UNCHANGED <<cfg, keyVars, dropVars, selVars, dragVars, popup_bounds>>

\* basic_popup_button::drag
PopupDrag ==
    /\ last' = [NoCall EXCEPT !.op = "popup_drag", !.refreshes = 1]
    /\ UNCHANGED <<cfg, keyVars, dropVars, selVars, dragVars, popupVars>>

PopupKey(key) ==
    LET r == popup_key(key, toggle, popup_open)
    IN  /\ toggle' = r.toggle
        /\ popup_open' = r.open
        /\ last' = [NoCall EXCEPT !.op = "popup_key", !.key = key,
                                  !.was_on = toggle, !.was_open = popup_open,
                                  !.refreshes = r.refreshes, !.ret = r.ret]
        /\ UNCHANGED <<cfg, keyVars, dropVars, selVars, dragVars, popup_on_click, popup_bounds>>

\* keyDown: the press goes through handle_key, the event is interpreted as
\* text, and an event neither handled nor inserted goes to the next responder.
KeyDown(key, view_handled, text) ==
    LET r == handle_key(key_map, key, "press", view_handled)
        ins == insert_text(text, FALSE)
    IN  /\ key_map' = r.keys
        /\ text_inserted' = ins
        /\ view_received' = view_key(view_received, key, r.delivered)
        /\ last' = [NoCall EXCEPT !.op = "keyDown", !.key = key,
                                  !.prev_received = view_received[key],
                                  !.action = "press", !.prior = key_map[key],
                                  !.delivered = r.delivered, !.ret = r.ret,
                                  !.text = text,
                                  !.responder = IF ~r.ret /\ ~ins
                                                THEN "keyUp" ELSE "none"]
        /\ UNCHANGED <<cfg, dropVars, selVars, dragVars, popupVars>>

\* keyUp: the release goes through handle_key; unhandled, it goes to the next
\* responder.
KeyUp(key, view_handled) ==
    LET r == handle_key(key_map, key, "release", view_handled)
    IN  /\ key_map' = r.keys
        /\ view_received' = view_key(view_received, key, r.delivered)
        /\ last' = [NoCall EXCEPT !.op = "keyUp", !.key = key,
                                  !.prev_received = view_received[key],
                                  !.action = "release", !.prior = key_map[key],
                                  !.delivered = r.delivered, !.ret = r.ret,
                                  !.responder = IF ~r.ret THEN "keyUp" ELSE "none"]
        /\ UNCHANGED <<cfg, dropVars, selVars, dragVars, popupVars, text_inserted>>

\* flagsChanged: a modifier key whose flag is set is a press, or a release
\* when the key map already holds a press; one whose flag is clear is a
\* release.
FlagsChanged(key, flag_set, view_handled) ==
    LET action == IF flag_set
                  THEN IF key_map[key] = "press" THEN "release" ELSE "press"
                  ELSE "release"
        r == handle_key(key_map, key, action, view_handled)
    IN  /\ key_map' = r.keys
        /\ view_received' = view_key(view_received, key, r.delivered)
        /\ last' = [NoCall EXCEPT !.op = "flagsChanged", !.key = key,
                                  !.prev_received = view_received[key],
                                  !.action = action, !.prior = key_map[key],
                                  !.delivered = r.delivered, !.ret = r.ret]
        /\ UNCHANGED <<cfg, dropVars, selVars, dragVars, popupVars, text_inserted>>

\* ------------------------------------------------------- specifications
FullConfig == [hasDI |-> TRUE, hasSel |-> TRUE, container |-> "list"]

DrawStep ==
    \E heights \in Layouts :
      \E y \in CursorYs(heights) :
        \E hit \in hit_choices(heights, y) : Draw(heights, y, hit)

\* The drag gesture on a draggable item, with and without an insertion-aware
\* ancestor and a selection coordinator.
Init == InitWith({c \in Configs : c.container = "list"})

Next ==
    \/ PrepareSubject("ins")
    \/ Draw(<<3, 2>>, 2, 0)
    \/ \E new_sel \in {{}, {0}, Indices}, new_flag \in BOOLEAN :
          InserterClick(TRUE, FALSE, new_sel, new_flag)
    \/ \E mods \in Modifiers, under \in Under : BeginTracking(mods, under)
    \/ \E mods \in Modifiers, cur \in Points, under \in Under :
          KeepTracking(mods, cur, under)
    \/ \E mods \in Modifiers, d \in Dists, under \in Under :
          EndTracking(mods, d.x, d.y, under)
    \/ \E action \in KeyActions, key \in KeyCodes, under \in Under :
          Key(action, key, under)

Spec == Init /\ [][Next]_vars

\* The drag image of a gesture over selections up to and beyond max_boxes.
ImageSelections == {{}, {0}, 0 .. (max_boxes - 1), 0 .. max_boxes}

InitImage == InitWith({c \in Configs : c.hasSel /\ c.container = "list"})

NextImage ==
    \/ \E new_sel \in ImageSelections :
          InserterClick(TRUE, FALSE, new_sel, new_sel # {})
    \/ \E mods \in Modifiers : BeginTracking(mods, Targets)
    \/ \E cur \in Points : KeepTracking({}, cur, Targets)
    \/ DrawImage
    \/ \E mods \in Modifiers, d \in Dists : EndTracking(mods, d.x, d.y, Targets)

SpecImage == InitImage /\ [][NextImage]_vars

\* Whole gestures under the tracker's protocol: what an item that was
\* unselected at pointer-down can cause before the pointer-up.
InitGesture == InitAt({c \in Configs : c.hasSel /\ c.container = "list"}, "idle")

NextGesture ==
    \/ \E new_sel \in {{}, {0}}, new_flag \in BOOLEAN :
          InserterClick(TRUE, FALSE, new_sel, new_flag)
    \/ Draw(<<3, 2>>, 2, 0)
    \/ \E mods \in {{}, {"mod_shift"}} : BeginTracking(mods, Targets)
    \/ \E mods \in {{}, {"mod_shift"}}, cur \in GesturePoints :
          KeepTracking(mods, cur, Targets)
    \/ \E mods \in {{}, {"mod_shift"}}, d \in Dists :
          EndTracking(mods, d.x, d.y, Targets)
    \/ \E key \in {"escape", "other"} : Key("press", key, Targets)

SpecGesture == InitGesture /\ [][NextGesture]_vars

\* The platform adapter's key events.
InitKeys == InitWith({FullConfig})

NextKeys ==
    \/ \E key \in AdapterKeys, view_handled \in BOOLEAN, text \in Texts :
          KeyDown(key, view_handled, text)
    \/ \E key \in AdapterKeys, view_handled \in BOOLEAN : KeyUp(key, view_handled)
    \/ \E key \in AdapterKeys, flag_set \in BOOLEAN, view_handled \in BOOLEAN :
          FlagsChanged(key, flag_set, view_handled)

SpecKeys == InitKeys /\ [][NextKeys]_vars

\* The drop targets, driven by the view's drop notifications.
InitDrop == InitWith({FullConfig})

NextDrop ==
    \/ \E t \in Targets : PrepareSubject(t)
    \/ \E t \in Targets, keys \in Payloads, status \in Statuses :
          TrackDrop(t, keys, status)
    \/ \E t \in Targets, keys \in Payloads, accept \in BOOLEAN :
          Drop(t, keys, accept)
    \/ DrawStep

SpecDrop == InitDrop /\ [][NextDrop]_vars

\* The insertion-aware container: draw passes, list mutation, selection.
InitList == InitWith({c \in Configs : c.hasDI})

NextList ==
    \/ \E status \in Statuses : TrackDrop("ins", {"text/plain"}, status)
    \/ DrawStep
    \/ \E indices \in Selections : Move(indices)
    \/ \E indices \in Selections : Erase(indices)
    \/ \E handled \in BOOLEAN, down \in BOOLEAN, new_sel \in Selections :
          InserterClick(handled, down, new_sel, new_sel # {})
    \/ \E handled \in BOOLEAN, new_sel \in Selections :
          InserterKey(handled, new_sel, new_sel # {})
    \/ \E accept \in BOOLEAN : Drop("ins", {"text/plain"}, accept)

SpecList == InitList /\ [][NextList]_vars

\* The popup button.
InitPopup == InitWith({FullConfig})

NextPopup ==
    \/ \E b \in ButtonBounds, w \in PopupWidths : PopupLayout(b, w)
    \/ \E down \in BOOLEAN, inside \in BOOLEAN, item_hit \in BOOLEAN, pos \in Points :
          PopupClick(down, inside, item_hit, pos)
    \/ PopupDrag
    \/ \E key \in PopupKeys : PopupKey(key)

SpecPopup == InitPopup /\ [][NextPopup]_vars

\* ---------------------------------------------------------------- claims
InTrace(what) == \E i \in 1 .. Len(last.trace) : last.trace[i] = what

LastMatched == any_match(mime_types[last.target], last.keys)

\* C1 (as claimed): a track_drop call whose payload shares no key with the
\* target's accepted types leaves is_tracking as it was and requests no
\* refresh, on every kind of drop target.
C1_AdmissionGate ==
    (last.op = "track_drop" /\ ~LastMatched)
        => /\ is_tracking[last.target] = last.was_tracking
           /\ last.refreshes = 0

C3_DropAdmission ==
    (last.op = "drop" /\ last.target \in {"box", "ins"} /\ ~LastMatched)
        => /\ last.on_drop = 0
           /\ last.ret = FALSE

\* C4: at end_tracking with a drag image, a non-empty selection, an
\* insertion-aware ancestor and no shift/action modifier, the move is requested
\* iff |dx| > 10 or |dy| > 10; otherwise nothing moves and processed is false.
C4_ClickVsDrag ==
    (/\ last.op = "end_tracking"
     /\ last.had_image # 0
     /\ last.pre_sel # {}
     /\ cfg.hasDI
     /\ last.mods \cap {"mod_shift", "mod_action"} = {})
        => /\ InTrace("di.move") <=> (Abs(last.dx) > 10 \/ Abs(last.dy) > 10)
           /\ (Abs(last.dx) <= 10 /\ Abs(last.dy) <= 10)
                 => (~InTrace("di.move") /\ ~InTrace("list.move") /\ ~last.processed)

\* C4 witness: a release exactly 10 away on both axes, classified as a click.
C4_Witness ==
    /\ last.op = "end_tracking"
    /\ last.had_image # 0
    /\ last.pre_sel # {}
    /\ cfg.hasDI
    /\ last.mods = {}
    /\ Abs(last.dx) = 10
    /\ Abs(last.dy) = 10
    /\ ~InTrace("di.move")

\* C5 (as claimed): an end_tracking that finds a drag image leaves the element
\* without a drag image and the view without that overlay, whatever the
\* modifiers and the distance.
C5_OverlayReleased ==
    (last.op = "end_tracking" /\ last.had_image # 0)
        => /\ drag_image.id = 0
           /\ last.had_image \notin overlays

\* C6: escape (press or repeat) during a drag leaves no drag image on the
\* element and not that overlay in the view, and emits exactly one leaving
\* notification keyed by the insertion-aware ancestor when there is one.
C6_CancelSymmetry ==
    (/\ last.op = "draggable_key"
     /\ last.action \in {"press", "repeat"}
     /\ last.key = "escape"
     /\ last.had_image # 0)
        => /\ drag_image.id = 0
           /\ last.had_image \notin overlays
           /\ cfg.hasDI
                 => last.notes = <<[keys |-> {"addr:ins"}, status |-> "leaving"]>>

\* C6 witness: a repeated escape that cancelled a drag under an inserter.
C6_Witness ==
    /\ last.op = "draggable_key"
    /\ last.action = "repeat"
    /\ last.key = "escape"
    /\ last.had_image # 0
    /\ cfg.hasDI
    /\ Len(last.notes) = 1

\* C7: a move of N >= 1 indices at a valid insertion position P leaves the
\* coordinator's selection equal to P .. P+N-1, and asks the list to move those
\* indices to P.
C7_SelectionAfterMove ==
    (last.op = "move" /\ Cardinality(last.indices) >= 1 /\ last.pre_pos >= 0)
        => /\ cfg.hasSel
                 => selection
                      = {i \in 0 .. (2 * MaxItems) :
                            /\ last.pre_pos <= i
                            /\ i <= last.pre_pos + Cardinality(last.indices) - 1}
           /\ cfg.container = "list"
                 => /\ InTrace("list.move")
                    /\ last.list_pos = last.pre_pos
                    /\ last.list_indices = last.indices

\* C7 witness: two indices moved to position 1 of a list with a coordinator.
C7_Witness ==
    /\ last.op = "move"
    /\ Cardinality(last.indices) = 2
    /\ last.pre_pos = 1
    /\ cfg.hasSel
    /\ cfg.container = "list"
    /\ selection = {1, 2}

\* C8 (as claimed): every erase ends with an empty selection, in every
\* container configuration.
C8_EraseClearsSelection == last.op = "erase" => selection = {}

\* C9: a draw pass while tracking sets the insertion index to the hit child's
\* index when the cursor is strictly above the child's midpoint, to the index
\* plus one when at or below it, and to 0 in an empty container; a draw pass
\* while not tracking leaves the index alone.
C9_InsertionIndex ==
    last.op = "draw"
        => /\ (last.was_tracking /\ last.hit >= 0
                 /\ 2 * last.y < 2 * last.top + (last.bottom - last.top))
                 => insertion_pos = last.hit
           /\ (last.was_tracking /\ last.hit >= 0
                 /\ 2 * last.y >= 2 * last.top + (last.bottom - last.top))
                 => insertion_pos = last.hit + 1
           /\ (last.was_tracking /\ cfg.container # "none" /\ last.n = 0)
                 => insertion_pos = 0
           /\ ~last.was_tracking => insertion_pos = last.pre_pos

\* C9 witness: the cursor half a unit above the midpoint of a child of odd
\* height, not the first one.
C9_Witness ==
    /\ last.op = "draw"
    /\ last.was_tracking
    /\ last.hit >= 1
    /\ 2 * last.y + 1 = 2 * last.top + (last.bottom - last.top)
    /\ insertion_pos = last.hit

\* C10: a pointer-down on a closed popup button turns the toggle on, opens the
\* popup with the close-on-item-click callback registered and requests a
\* refresh; click returns the button itself.
C10_PopupOpen ==
    last.op = "popup_click"
        => /\ last.returned = "this"
           /\ (last.down /\ ~last.was_on)
                 => /\ toggle
                    /\ popup_open
                    /\ popup_on_click
                    /\ last.registered
                    /\ last.refreshes = 1

\* C10 witness: a pointer-down that found the button closed.
C10_Witness ==
    /\ last.op = "popup_click"
    /\ last.down
    /\ ~last.was_on
    /\ ~last.was_open
    /\ popup_open
    /\ toggle

\* C11: a pointer-up on the popup button forwards a synthesized pointer-down
\* click, at the same position and in the popup's own current bounds, to the
\* popup exactly when the toggle is off or the release is outside the button's
\* hit area; a release inside the button while the toggle is on forwards
\* nothing.
C11_ReleaseForwarding ==
    (last.op = "popup_click" /\ ~last.down) =>
        /\ last.forwarded <=> (~last.was_on \/ ~last.inside)
        /\ last.forwarded =>
              /\ last.fwd = [down |-> TRUE, pos |-> last.pos]
              /\ last.bounds = popup_bounds
        /\ ~last.forwarded => last.fwd = NoCall.fwd

C11_Witness ==
    /\ last.op = "popup_click" /\ ~last.down
    /\ ~last.was_on /\ last.inside /\ last.forwarded
    /\ last.bounds.right > last.bounds.left

\* C12: the escape key, from every state of the popup button, closes the
\* popup, sets the toggle off, requests one refresh and is reported handled;
\* any other key changes neither the popup nor the toggle and is reported
\* unhandled.
C12_EscapeCloses ==
    (last.op = "popup_key") =>
        IF last.key = "escape"
        THEN ~popup_open /\ ~toggle /\ last.refreshes = 1 /\ last.ret
        ELSE /\ popup_open = last.was_open /\ toggle = last.was_on
             /\ last.refreshes = 0 /\ ~last.ret

C12_Witness ==
    /\ last.op = "popup_key" /\ last.key = "escape"
    /\ last.was_on /\ last.was_open /\ ~popup_open /\ ~toggle

C12_WitnessClosed ==
    /\ last.op = "popup_key" /\ last.key = "escape"
    /\ ~last.was_on /\ ~last.was_open /\ last.ret

\* C13: a begin_tracking that creates a drag image for a selection of S items
\* gives it min(S, 20) boxes and widens the overlay by 10 * min(S, 20) on the
\* right and on the bottom; drawing the image paints exactly that many boxes,
\* box k (0-based) offset by (+10k, +10k) from the first.
C13_DragImageBoxes ==
    /\ (last.op = "begin_tracking" /\ last.processed) =>
          LET S == Cardinality(last.pre_sel)
              m == IF S < 20 THEN S ELSE 20
          IN  /\ drag_image.boxes = m
              /\ drag_image.left = ElementBounds.left
              /\ drag_image.top = ElementBounds.top
              /\ drag_image.right = ElementBounds.right + 10 * m
              /\ drag_image.bottom = ElementBounds.bottom + 10 * m
    /\ (last.op = "drag_image_draw") =>
          /\ Len(last.boxes) = drag_image.boxes
          /\ drag_image.boxes <= 20
          /\ \A k \in 0 .. (Len(last.boxes) - 1) :
                /\ last.boxes[k + 1].left = last.boxes[1].left + 10 * k
                /\ last.boxes[k + 1].top = last.boxes[1].top + 10 * k
                /\ last.boxes[k + 1].right = last.boxes[1].right + 10 * k
                /\ last.boxes[k + 1].bottom = last.boxes[1].bottom + 10 * k

C13_Witness ==
    /\ last.op = "drag_image_draw"
    /\ Cardinality(selection) > 20
    /\ Len(last.boxes) = 20
    /\ last.boxes[20].left = last.boxes[1].left + 190

\* C14: a drop on any target leaves that target not tracking, whatever the
\* payload and whether or not the callback accepts; the box target's drop
\* calls on_drop once and answers exactly what on_drop answered.
C14_DropClearsTracking ==
    (last.op = "drop") =>
        /\ ~is_tracking[last.target]
        /\ last.target = "box" => (last.on_drop = 1 /\ last.ret = last.accept)

C14_Witness ==
    /\ last.op = "drop" /\ last.target = "box"
    /\ last.was_tracking /\ ~last.accept /\ ~last.ret
    /\ ~any_match(mime_types["box"], last.keys)
    /\ ~is_tracking["box"]

\* C15 (as claimed): the insertion index is -1 after it has been consumed,
\* both by a drop on the inserter that found it valid and by the move that
\* end_tracking requests after a drag.
C15_IndexResetAfterUse ==
    /\ (last.op = "drop" /\ last.target = "ins" /\ last.pre_pos >= 0)
          => insertion_pos = -1
    /\ (last.op \in {"end_tracking", "move"} /\ InTrace("on_move"))
          => insertion_pos = -1

\* C16: with the insertion index at -1, move asks nothing of the list, calls
\* neither on_move nor update_selection and leaves the selection as it was;
\* drop on the inserter calls no on_drop and answers false.
C16_InvalidIndexNoOp ==
    /\ (last.op = "move" /\ last.pre_pos = -1) =>
          /\ last.trace = <<>>
          /\ last.list_indices = {} /\ last.list_pos = -1
          /\ selection = last.pre_sel
    /\ (last.op = "drop" /\ last.target = "ins" /\ last.pre_pos = -1) =>
          /\ last.on_drop = 0 /\ ~last.ret
          /\ insertion_pos = -1

C16_Witness ==
    /\ last.op = "move" /\ last.pre_pos = -1
    /\ last.indices # {} /\ last.pre_sel # {}
    /\ cfg.hasSel /\ cfg.container = "list"
    /\ selection = last.pre_sel

C16_WitnessDrop ==
    /\ last.op = "drop" /\ last.target = "ins" /\ last.pre_pos = -1
    /\ last.accept /\ ~last.ret

\* C17: a begin_tracking with the shift or the action modifier held creates
\* no drag image, adds nothing to the view's overlays, emits no drop
\* notification and leaves processed false.
C17_ModifierGuard ==
    (last.op = "begin_tracking"
        /\ ("mod_shift" \in last.mods \/ "mod_action" \in last.mods)) =>
        /\ drag_image.id = last.had_image
        /\ overlays = last.pre_ovl
        /\ last.notes = <<>>
        /\ last.refreshes = 0
        /\ ~last.processed

C17_Witness ==
    /\ last.op = "begin_tracking" /\ "mod_action" \in last.mods
    /\ is_selected /\ cfg.hasSel /\ cfg.hasDI /\ selection # {}
    /\ drag_image.id = 0 /\ overlays = {} /\ ~last.processed

\* The begin_tracking half of C18: without shift or action, the drag image is
\* created, added to the overlays and the gesture claimed exactly when the item
\* is selected under a selection coordinator, and then one entering
\* notification carries the inserter's identity key if there is an inserter.
C18_BeginCreates ==
    (last.op = "begin_tracking"
        /\ ~("mod_shift" \in last.mods \/ "mod_action" \in last.mods)) =>
        LET created == /\ drag_image.id # 0
                       /\ drag_image.id \notin last.pre_ovl
                       /\ drag_image.id \in overlays
        IN  /\ created <=> (is_selected /\ cfg.hasSel)
            /\ last.processed <=> created
            /\ last.notes = IF created /\ cfg.hasDI
                            THEN <<[keys |-> {"addr:ins"}, status |-> "entering"]>>
                            ELSE <<>>
            /\ ~created => (overlays = last.pre_ovl /\ drag_image.id = last.had_image)

\* The gesture half of C18: a gesture begun on an unselected item emits no
\* drop notification, moves nothing and touches no overlay in its keep and end
\* steps.
C18_UnselectedGesture ==
    (last.op \in {"keep_tracking", "end_tracking"} /\ last.began = "unselected") =>
        /\ last.notes = <<>>
        /\ last.trace = <<>>
        /\ ~last.processed

\* C18 (as claimed): begin_tracking without shift or action creates the drag
\* image, adds it to the overlays and claims the gesture exactly when the item
\* is selected and a selection coordinator exists, then emitting one entering
\* notification to the inserter if there is one; for an unselected item the
\* whole gesture creates no overlay, emits no notification and moves nothing.
C18_SelectedDragOnly == C18_BeginCreates /\ C18_UnselectedGesture

\* C19: every keep_tracking without shift or action that finds a drag image
\* moves the overlay to the current pointer position (keeping its size),
\* requests a view refresh and, when there is an inserter, emits one hovering
\* notification carrying its identity key and claims the gesture; one that
\* finds no drag image does nothing and leaves processed false.
C19_KeepTracking ==
    (last.op = "keep_tracking"
        /\ ~("mod_shift" \in last.mods \/ "mod_action" \in last.mods)) =>
        IF last.had_image # 0
        THEN /\ drag_image.id = last.had_image
             /\ drag_image.left = last.pos.x /\ drag_image.top = last.pos.y
             /\ drag_image.right - drag_image.left
                  = (ElementBounds.right - ElementBounds.left) + 10 * drag_image.boxes
             /\ drag_image.bottom - drag_image.top
                  = (ElementBounds.bottom - ElementBounds.top) + 10 * drag_image.boxes
             /\ last.notes = IF cfg.hasDI
                             THEN <<[keys |-> {"addr:ins"}, status |-> "hovering"]>>
                             ELSE <<>>
             /\ last.processed <=> cfg.hasDI
             /\ last.refreshes >= 1
        ELSE /\ drag_image = NoImage
             /\ last.notes = <<>> /\ ~last.processed /\ last.refreshes = 0

C19_Witness ==
    /\ last.op = "keep_tracking" /\ last.mods = {}
    /\ last.had_image # 0 /\ cfg.hasDI
    /\ last.pos = [x |-> 9, y |-> 2] /\ drag_image.left = 9 /\ drag_image.top = 2
    /\ Len(last.notes) = 1 /\ last.processed

C19_WitnessNoImage ==
    /\ last.op = "keep_tracking" /\ last.mods = {}
    /\ last.had_image = 0 /\ cfg.hasDI /\ ~last.processed

C21_EndWithoutBegin ==
    (last.op = "end_tracking" /\ last.had_image = 0) =>
        /\ drag_image = NoImage
        /\ overlays = last.pre_ovl
        /\ last.notes = <<>>
        /\ last.trace = <<>>
        /\ selection = last.pre_sel
        /\ insertion_pos = last.pre_pos
        /\ last.refreshes = 0
        /\ ~last.processed

C21_Witness ==
    /\ last.op = "end_tracking" /\ last.had_image = 0
    /\ last.mods = {} /\ last.dx > 10
    /\ cfg.hasDI /\ last.pre_sel # {} /\ last.pre_pos >= 0
    /\ ~last.processed /\ selection = last.pre_sel

\* C22 (as claimed): every click and every key on the inserter that the base
\* class reports handled publishes the current selection and latest index
\* through on_select exactly once, for pointer-down and pointer-up alike and
\* whatever the latest index; an unhandled one publishes nothing.
C22_Republication ==
    (last.op \in {"click", "key"}) =>
        IF last.ret
        THEN /\ last.trace = <<"on_select">>
             /\ last.published = [indices |-> selection, latest |-> select_end]
        ELSE last.trace = <<>>

\* C22 (amended): on_select is called, once and with the current selection
\* and latest index, exactly for a handled pointer-up click or a handled key
\* when a selection coordinator exists and its latest index is not negative;
\* every other click or key publishes nothing.
C22_RepublicationAmended ==
    (last.op \in {"click", "key"}) =>
        IF /\ last.ret
           /\ ~(last.op = "click" /\ last.down)
           /\ cfg.hasSel
           /\ select_end >= 0
        THEN /\ last.trace = <<"on_select">>
             /\ last.published = [indices |-> selection, latest |-> select_end]
        ELSE /\ last.trace = <<>>
             /\ last.published = NoCall.published

C22_Witness ==
    /\ last.op = "click" /\ last.ret /\ ~last.down
    /\ cfg.hasSel /\ select_end >= 0 /\ selection # {}
    /\ last.trace = <<"on_select">>
    /\ last.published.indices = selection

\* C23 (as claimed): a backspace or delete key on a draggable element asks
\* the inserter to erase the selection and answers true exactly when the key
\* is a press or a repeat, the item is selected, an inserter and a selection
\* coordinator exist and the selection is not empty; in every other case
\* nothing is erased and key answers false.
C23_DeleteKey ==
    (last.op = "draggable_key" /\ last.key \in {"backspace", "_delete"}) =>
        LET erases == /\ last.action \in {"press", "repeat"}
                      /\ last.was_selected
                      /\ cfg.hasDI /\ cfg.hasSel
                      /\ last.pre_sel # {}
        IN  IF erases
            THEN InTrace("di.erase") /\ last.indices = last.pre_sel /\ last.ret
            ELSE ~InTrace("di.erase") /\ selection = last.pre_sel /\ ~last.ret

\* What the code does for the delete keys: the same, without the test of the
\* item's own selected flag.
C23_DeleteKeyAnyItem ==
    (last.op = "draggable_key" /\ last.key \in {"backspace", "_delete"}) =>
        LET erases == /\ last.action \in {"press", "repeat"}
                      /\ cfg.hasDI /\ cfg.hasSel
                      /\ last.pre_sel # {}
        IN  IF erases
            THEN InTrace("di.erase") /\ last.indices = last.pre_sel /\ last.ret
            ELSE ~InTrace("di.erase") /\ selection = last.pre_sel /\ ~last.ret

\* C24: when the callback registered at popup open runs (the forwarded click
\* lands on an item of the popup), the popup is closed, the toggle is off and
\* a refresh is requested; so a release over an item after the press that
\* opened the menu ends with the popup closed and the toggle off.
C24_ItemClickCloses ==
    (last.op = "popup_click" /\ ~last.down /\ last.forwarded
        /\ last.item_hit /\ popup_on_click) =>
        /\ ~popup_open
        /\ ~toggle
        /\ last.refreshes >= 1

C24_Witness ==
    /\ last.op = "popup_click" /\ ~last.down /\ ~last.inside
    /\ last.was_on /\ last.was_open /\ last.item_hit /\ popup_on_click
    /\ ~popup_open /\ ~toggle

\* C25: a drop target's accepted types always include the types given at
\* construction and nothing else but its own identity key; after any
\* prepare_subject they are exactly the constructor's types plus that one
\* key, so a second prepare_subject changes nothing.
C25_AcceptedTypes ==
    /\ \A t \in Targets :
          /\ ctor_types(t) \subseteq mime_types[t]
          /\ mime_types[t] \subseteq ctor_types(t) \cup {address_to_string(t)}
    /\ (last.op = "prepare_subject") =>
          /\ mime_types[last.target]
                = ctor_types(last.target) \cup {address_to_string(last.target)}
          /\ Cardinality(mime_types[last.target])
                = Cardinality(ctor_types(last.target)) + 1

C25_Witness ==
    /\ last.op = "prepare_subject" /\ last.target = "box"
    /\ last.n = Cardinality(ctor_types("box")) + 1
    /\ mime_types["box"] = {"text/plain", "addr:box"}

\* C26 (as claimed): a keyUp goes to the next responder exactly when the
\* release is not reported handled, a release dropped by handle_key included;
\* a keyDown goes to the next responder exactly when the press is not reported
\* handled and no text was inserted while the event was interpreted.
C26_KeyFallback ==
    /\ (last.op = "keyUp") =>
          /\ (last.responder # "none") <=> ~last.ret
          /\ last.delivered = "none" => last.responder # "none"
    /\ (last.op = "keyDown") =>
          ((last.responder # "none") <=>
              (~last.ret /\ ~\E i \in 1 .. Len(last.text) : last.text[i] = "taken"))

\* What the code does on keyDown: the fallback looks at the answer for the
\* last character that was not a function-key codepoint.
C26_KeyFallbackLastChar ==
    /\ (last.op = "keyUp") =>
          /\ (last.responder # "none") <=> ~last.ret
          /\ last.delivered = "none" => last.responder # "none"
    /\ (last.op = "keyDown") =>
          /\ (last.responder # "none") <=> (~last.ret /\ ~text_inserted)
          /\ text_inserted <=>
                \E i \in 1 .. Len(last.text) :
                    /\ last.text[i] = "taken"
                    /\ \A j \in (i + 1) .. Len(last.text) : last.text[j] = "function"

\* C27 (as claimed): after every sequence of begin_tracking, keep_tracking,
\* end_tracking and escape events, the drag images in the view's overlay list
\* are exactly the one the element references (none when it references
\* none).
C27_OverlayOwnership ==
    overlays = IF drag_image.id = 0 THEN {} ELSE {drag_image.id}

\* The half of C27 that the code keeps: the image the element references is
\* always in the view's overlay list.
C27_ReferencedIsShown ==
    drag_image.id # 0 => drag_image.id \in overlays

\* C28: in every state reachable by pointer-downs, pointer-ups, item clicks
\* and escape keys the popup is open exactly when the toggle is on, and a
\* pointer-down while the popup is open neither opens it nor registers the
\* callback again.
C28_PopupToggleAgree ==
    /\ popup_open <=> toggle
    /\ (last.op = "popup_click" /\ last.down /\ last.was_open) =>
          /\ ~last.registered
          /\ last.refreshes = 0
          /\ popup_open /\ toggle

C28_Witness ==
    /\ last.op = "popup_click" /\ last.down
    /\ last.was_open /\ last.was_on /\ ~last.registered
    /\ popup_open /\ toggle /\ popup_on_click

\* C29 (as claimed): an escape press on an element that holds no drag image
\* emits no drop notification and changes neither the view's overlays nor any
\* target's is_tracking, as end_tracking does in that state; key answers false
\* for escape in every state.
C29_EscapeIdle ==
    (last.op = "draggable_key" /\ last.key = "escape") =>
        /\ ~last.ret
        /\ (last.action \in {"press", "repeat"} /\ last.had_image = 0) =>
              /\ last.notes = <<>>
              /\ overlays = last.pre_ovl
              /\ {t \in Targets : is_tracking[t]} = last.pre_trk

\* The half of C29 that the code keeps: escape is never reported handled, and
\* with no drag image it leaves the overlays alone.
C29_EscapeUnhandled ==
    (last.op = "draggable_key" /\ last.key = "escape") =>
        /\ ~last.ret
        /\ last.had_image = 0 => overlays = last.pre_ovl

\* C30: a tracked draw pass over a non-empty container whose cursor hits no
\* child keeps the insertion index as it was and draws no indicator line; a
\* later move or drop on the inserter then uses the index as the draw passes
\* left it.
C30_StaleIndex ==
    /\ (last.op = "draw" /\ last.was_tracking /\ cfg.container # "none"
           /\ last.n > 0 /\ last.hit = -1) =>
          /\ insertion_pos = last.pre_pos
          /\ last.line = -1
    /\ (last.op = "move" /\ last.pre_pos >= 0 /\ cfg.container = "list") =>
          last.list_pos = last.pre_pos
    /\ (last.op = "drop" /\ last.target = "ins" /\ last.pre_pos >= 0) =>
          last.on_drop_pos = last.pre_pos

C30_Witness ==
    /\ last.op = "draw" /\ last.was_tracking /\ cfg.container # "none"
    /\ last.n > 0 /\ last.hit = -1
    /\ last.pre_pos >= 1 /\ insertion_pos = last.pre_pos /\ last.line = -1

\* C31: a press for a key whose recorded action is press reaches the view as
\* a repeat, so the view is never given a press for a key whose previous
\* action was a press or a repeat; and the recorded action of every key is
\* the action of the last event for it that was not dropped (a repeat being
\* recorded as the press it came in as).
C31_KeyRepeat ==
    /\ (last.op \in {"keyDown", "keyUp", "flagsChanged"}) =>
          /\ (last.action = "press" /\ last.prior = "press")
                => last.delivered = "repeat"
          /\ last.delivered = "press"
                => last.prev_received \in {"none", "release"}
          /\ last.delivered = "repeat"
                => last.prev_received \in {"press", "repeat"}
    /\ \A k \in AdapterKeys :
          key_map[k] = CASE view_received[k] = "none" -> key_action_default
                         [] view_received[k] = "repeat" -> "press"
                         [] OTHER -> view_received[k]

C31_Witness ==
    /\ last.op = "keyDown" /\ last.prior = "press"
    /\ last.prev_received = "repeat" /\ last.delivered = "repeat"
    /\ key_map[last.key] = "press"

\* C32: a release for a key whose recorded action is already release is
\* dropped: the view's key handler is not called, the key map is unchanged
\* and handle_key answers false; so the view is never given a release for a
\* key whose previous action was a release, or that it never saw pressed.
C32_ReleaseDedup ==
    (last.op \in {"keyDown", "keyUp", "flagsChanged"}) =>
        /\ (last.action = "release" /\ last.prior = "release") =>
              /\ last.delivered = "none"
              /\ view_received[last.key] = last.prev_received
              /\ key_map[last.key] = last.prior
              /\ ~last.ret
        /\ last.delivered = "release"
              => last.prev_received \in {"press", "repeat"}

C32_Witness ==
    /\ last.op = "keyUp" /\ last.prior = "release"
    /\ last.prev_received = "release" /\ last.delivered = "none"
    /\ ~last.ret /\ last.responder = "keyUp"

====
